---- MODULE Spec2Model ----
(***************************************************************************)
(* A model of utils.py of PathCORE-T-analysis: the four file loaders       *)
(* load_expression_dataset, load_pathway_definitions,                      *)
(* load_significant_pathways_file and load_weight_matrix (with its helper  *)
(* _weight_matrix_file_skip_rows).                                         *)
(*                                                                         *)
(* One behaviour is one call of one loader.  Init draws the loader and its *)
(* arguments (the file's content included); the actions are the steps of   *)
(* the called function.  Text is a sequence of character codes, a table is *)
(* a record of its index labels, its column labels and its rows.           *)
(* An optional argument is <<>> for None and <<v>> for the value v.        *)
(***************************************************************************)
EXTENDS Integers, Sequences, FiniteSets, TLC

VARIABLES call, pc, file, n_features, n_genes, genes_file, rows, shorten,
          numpy_build, opened, fpos, pos, current_line, data, read_csv_args,
          weight_matrix, err, it, pathway_definitions_map, result

vars == <<call, pc, file, n_features, n_genes, genes_file, rows, shorten,
          numpy_build, opened, fpos, pos, current_line, data, read_csv_args,
          weight_matrix, err, it, pathway_definitions_map, result>>

\* ------------------------------------------------------------------ bounds
MaxLines == 3
MaxFields == 3
MaxFeatures == 2
MaxGenes == 2
MaxGeneIds == 2
MaxRows == 3
MaxNames == 2

\* ------------------------------------------------------- character codes
TAB == 9
NL == 10
SEMI == 59
QMARK == 63
Letters == {97, 98}

\* --------------------------------------------------------- text helpers
Min(a, b) == IF a <= b THEN a ELSE b

Max(a, b) == IF a >= b THEN a ELSE b

\* str.split(sep): the pieces of s between the occurrences of sep; always
\* at least one piece, "" gives [""].
RECURSIVE SplitFrom(_, _, _, _)
SplitFrom(s, sep, k, cur) ==
    IF k > Len(s) THEN <<cur>>
    ELSE IF s[k] = sep THEN <<cur>> \o SplitFrom(s, sep, k + 1, <<>>)
    ELSE SplitFrom(s, sep, k + 1, Append(cur, s[k]))

Split(s, sep) == SplitFrom(s, sep, 1, <<>>)

\* file.readline() at offset p: the offset after the line that starts at p
\* (the newline included), p itself at end of file.
RECURSIVE LineEnd(_, _)
LineEnd(f, p) ==
    IF p >= Len(f) THEN Len(f)
    ELSE IF f[p + 1] = NL THEN p + 1
    ELSE LineEnd(f, p + 1)

ReadLine(f, p) == SubSeq(f, p + 1, LineEnd(f, p))

\* The lines of a text as the tabular parser sees them: split on newline,
\* the terminator dropped, no line after a final newline.
TextLines(t) ==
    LET pieces == Split(t, NL)
    IN IF pieces[Len(pieces)] = <<>> THEN SubSeq(pieces, 1, Len(pieces) - 1)
       ELSE pieces

\* ------------------------------------------------------------ the inputs
\* A line of a weight-matrix file: nf fields, each the one character tag;
\* nf = 0 is the blank line.
LineTemplates == [nf : 0..MaxFields, tag : Letters]

RECURSIVE JoinFields(_, _)
JoinFields(n, tag) ==
    IF n = 0 THEN <<>>
    ELSE IF n = 1 THEN <<tag>>
    ELSE JoinFields(n - 1, tag) \o <<TAB, tag>>

LineChars(l) == JoinFields(l.nf, l.tag)

RECURSIVE FileChars(_, _)
FileChars(ls, finalNL) ==
    IF ls = <<>> THEN <<>>
    ELSE IF Len(ls) = 1 THEN LineChars(ls[1]) \o (IF finalNL THEN <<NL>> ELSE <<>>)
    ELSE LineChars(ls[1]) \o <<NL>> \o FileChars(Tail(ls), finalNL)

SeqsUpTo(S, n) == UNION {[1..k -> S] : k \in 0..n}

WeightFiles ==
    {FileChars(ls, nl) : ls \in SeqsUpTo({l \in LineTemplates : l.nf > 0 \/ l.tag = 97}, MaxLines),
                         nl \in BOOLEAN}

\* A genes file: one identifier a line, "g", "h", ... in this order.
GenesFiles == {[k \in 1..n |-> <<102 + k>>] : n \in 0..MaxGeneIds}

\* Pathway and feature names, and the shortening functions a caller may pass.
Names == 1..MaxNames

Shorteners == [Names -> Names]

\* The third column of a pathway-definitions row.
GeneLists == {<<103>>, <<104>>, <<103, SEMI, 104>>, <<104, SEMI>>}

PathwayRows == [pw : Names, size : {1}, genes : GeneLists]

SignificantRows == [feature : 1..2, side : 1..2, pathway : Names, extra : {0}]

GeneNames == {<<97>>, <<QMARK>>, <<97, 97>>, <<97, QMARK>>, <<QMARK, 97>>, <<QMARK, QMARK>>}

ExpressionRows == [gene : GeneNames, value : 1..2]

Opt(S) == {<<>>} \cup {<<v>> : v \in S}

\* Python truthiness of an optional integer or of an optional path.
Truthy(o) == o # <<>> /\ o[1] # 0

Given(o) == o # <<>>

\* --------------------------------------------------------------- tables
NaN == <<>>

EmptyTable == [index |-> <<>>, columns |-> <<>>, data |-> <<>>, index_name |-> ""]

Range(n) == [k \in 1..n |-> k - 1]

PadRow(r, w) == [k \in 1..w |-> IF k <= Len(r) THEN r[k] ELSE NaN]

\* pandas.read_csv(text, header=None, sep="\t", index_col=..., nrows=...):
\* blank lines are skipped, at most nrows lines are tokenized, the first
\* line sets the width, a longer line is a parse error, a shorter one is
\* padded with NaN, nothing to parse is an error.
\* A parser that does not stop after nrows rows.
CsvLines_IgnoreNrows(text, nrows) ==
    SelectSeq(TextLines(text), LAMBDA l : l # <<>>)

CsvLines(text, nrows) ==
    LET nonblank == SelectSeq(TextLines(text), LAMBDA l : l # <<>>)
    IN IF nrows = <<>> THEN nonblank
       ELSE SubSeq(nonblank, 1, Min(nrows[1], Len(nonblank)))

CsvError(text, nrows) ==
    LET ls == CsvLines(text, nrows)
    IN IF ls = <<>> THEN "EmptyDataError"
       ELSE IF \E k \in 1..Len(ls) : Len(Split(ls[k], TAB)) > Len(Split(ls[1], TAB))
            THEN "ParserError"
       ELSE ""

ReadCsv(text, args) ==
    LET ls == CsvLines(text, args.nrows)
        w == Len(Split(ls[1], TAB))
        cells == [k \in 1..Len(ls) |-> PadRow(Split(ls[k], TAB), w)]
    IN IF args.index_col = <<>>
       THEN [index |-> Range(Len(ls)), columns |-> Range(w), data |-> cells,
             index_name |-> ""]
       ELSE [index |-> [k \in 1..Len(ls) |-> cells[k][1]],
             columns |-> [k \in 1..(w - 1) |-> k],
             data |-> [k \in 1..Len(ls) |-> Tail(cells[k])],
             index_name |-> ""]

\* pd.concat([weight_matrix, genes_df], axis=1) then set_index("genes"):
\* an outer join on the two range indexes, the genes column made the index.
ConcatGenes(wm, genes) ==
    LET n == Max(Len(wm.data), Len(genes))
        w == Len(wm.columns)
    IN [index |-> [k \in 1..n |-> IF k <= Len(genes) THEN genes[k] ELSE NaN],
        columns |-> wm.columns,
        data |-> [k \in 1..n |-> IF k <= Len(wm.data) THEN wm.data[k]
                                 ELSE [c \in 1..w |-> NaN]],
        index_name |-> "genes"]

\* ------------------------------------------------------------------ Init
InitWM ==
    /\ call = "load_weight_matrix"
    /\ file \in WeightFiles
    /\ n_features \in 1..MaxFeatures
    /\ n_genes \in Opt(0..MaxGenes)
    /\ genes_file \in Opt(GenesFiles)
    /\ rows = <<>>
    /\ shorten = <<>>
    /\ numpy_build = "none"

\* The calls of load_weight_matrix without a row cap, for the scan alone.
InitScanInputs ==
    /\ call = "load_weight_matrix"
    /\ file \in WeightFiles
    /\ n_features \in 1..MaxFeatures
    /\ n_genes = <<>>
    /\ genes_file \in {<<>>, <<<<<<103>>>>>>}
    /\ rows = <<>>
    /\ shorten = <<>>
    /\ numpy_build = "none"

InitPD ==
    /\ call = "load_pathway_definitions"
    /\ rows \in SeqsUpTo(PathwayRows, MaxRows)
    /\ shorten \in Opt(Shorteners)
    /\ file = <<>> /\ n_features = 1 /\ n_genes = <<>> /\ genes_file = <<>>
    /\ numpy_build = "none"

InitSP ==
    /\ call = "load_significant_pathways_file"
    /\ rows \in SeqsUpTo(SignificantRows, MaxRows)
    /\ shorten \in Opt(Shorteners)
    /\ file = <<>> /\ n_features = 1 /\ n_genes = <<>> /\ genes_file = <<>>
    /\ numpy_build = "none"

\* Unary minus on a boolean array negates it in numpy before 1.13 and raises
\* TypeError from 1.13 on: the build decides.
InitED ==
    /\ call = "load_expression_dataset"
    /\ rows \in SeqsUpTo(ExpressionRows, MaxRows)
    /\ numpy_build \in {"negates", "raises"}
    /\ shorten = <<>>
    /\ file = <<>> /\ n_features = 1 /\ n_genes = <<>> /\ genes_file = <<>>

InitLocals ==
    /\ pc = "start"
    /\ opened = FALSE
    /\ fpos = 0
    /\ pos = 0
    /\ current_line = <<>>
    /\ data = <<>>
    /\ read_csv_args = [index_col |-> <<>>, nrows |-> <<>>]
    /\ weight_matrix = EmptyTable
    /\ err = ""
    /\ it = 0
    /\ pathway_definitions_map = <<>>
    /\ result = EmptyTable

Init == (InitWM \/ InitPD \/ InitSP \/ InitED) /\ InitLocals

InitScan == InitScanInputs /\ InitLocals

inputs == <<call, file, n_features, n_genes, genes_file, rows, shorten, numpy_build>>

\* ------------------------------------------------------ load_weight_matrix
\* A loader that always takes column 0 as the index.
LoadWeightMatrix_AlwaysIndexCol ==
    /\ call = "load_weight_matrix" /\ pc = "start"
    /\ read_csv_args' = [index_col |-> <<0>>,
                         nrows |-> IF Truthy(n_genes) THEN n_genes ELSE <<>>]
    /\ pc' = "stat"
    /\ UNCHANGED <<inputs, opened, fpos, pos, current_line, data, weight_matrix,
                   err, it, pathway_definitions_map, result>>

\* lines 123-133: build the parser arguments, call the helper.
LoadWeightMatrix ==
    /\ call = "load_weight_matrix" /\ pc = "start"
    /\ read_csv_args' = [index_col |-> IF ~Given(genes_file) THEN <<0>> ELSE <<>>,
                         nrows |-> IF Truthy(n_genes) THEN n_genes ELSE <<>>]
    /\ pc' = "stat"
    /\ UNCHANGED <<inputs, opened, fpos, pos, current_line, data, weight_matrix,
                   err, it, pathway_definitions_map, result>>

\* The helper without its zero-byte check.
SkipRowsStat_NoCheck ==
    /\ pc = "stat"
    /\ pc' = "open"
    /\ UNCHANGED <<inputs, opened, fpos, pos, current_line, data, read_csv_args,
                   weight_matrix, err, it, pathway_definitions_map, result>>

\* lines 151-152: the zero-byte check.
SkipRowsStat ==
    /\ pc = "stat"
    /\ IF Len(file) = 0
       THEN pc' = "raised" /\ err' = "ValueError: file is empty"
       ELSE pc' = "open" /\ err' = err
    /\ UNCHANGED <<inputs, opened, fpos, pos, current_line, data, read_csv_args,
                   weight_matrix, it, pathway_definitions_map, result>>

\* lines 153-156: open, read the first line.
SkipRowsOpen ==
    /\ pc = "open"
    /\ opened' = TRUE
    /\ pos' = 0
    /\ current_line' = ReadLine(file, 0)
    /\ fpos' = LineEnd(file, 0)
    /\ data' = Split(ReadLine(file, 0), TAB)
    /\ pc' = "while"
    /\ UNCHANGED <<inputs, read_csv_args, weight_matrix, err, it,
                   pathway_definitions_map, result>>

\* line 157: the loop test holds, enter the body.
SkipRowsWhile ==
    /\ pc = "while"
    /\ Len(data) < n_features
    /\ pc' = "body"
    /\ UNCHANGED <<inputs, opened, fpos, pos, current_line, data, read_csv_args,
                   weight_matrix, err, it, pathway_definitions_map, result>>

\* A scan that records the offset after the line it has just read.
SkipRowsScan_PosAfter ==
    /\ pc = "body"
    /\ pos' = LineEnd(file, fpos)
    /\ current_line' = ReadLine(file, fpos)
    /\ fpos' = LineEnd(file, fpos)
    /\ data' = Split(ReadLine(file, fpos), TAB)
    /\ pc' = "while"
    /\ UNCHANGED <<inputs, opened, read_csv_args, weight_matrix, err, it,
                   pathway_definitions_map, result>>

\* lines 158-160: the body of the loop, back to the test.
SkipRowsScan ==
    /\ pc = "body"
    /\ pos' = fpos
    /\ current_line' = ReadLine(file, fpos)
    /\ fpos' = LineEnd(file, fpos)
    /\ data' = Split(ReadLine(file, fpos), TAB)
    /\ pc' = "while"
    /\ UNCHANGED <<inputs, opened, read_csv_args, weight_matrix, err, it,
                   pathway_definitions_map, result>>

\* line 157, 161-162: the loop test fails; rewind and hand the rest of the file to the parser.
SkipRowsReadCsv ==
    /\ pc = "while"
    /\ ~(Len(data) < n_features)
    /\ fpos' = pos
    /\ LET text == SubSeq(file, pos + 1, Len(file))
           e == CsvError(text, read_csv_args.nrows)
       IN IF e # ""
          THEN pc' = "raised" /\ err' = e /\ weight_matrix' = weight_matrix
          ELSE pc' = "loaded" /\ err' = err
               /\ weight_matrix' = ReadCsv(text, read_csv_args)
    /\ opened' = FALSE
    /\ UNCHANGED <<inputs, pos, current_line, data, read_csv_args, it,
                   pathway_definitions_map, result>>

\* lines 135-139: attach the gene identifiers of the genes file.
AttachGenes ==
    /\ call = "load_weight_matrix" /\ pc = "loaded"
    /\ Given(genes_file)
    /\ IF genes_file[1] = <<>>
       THEN pc' = "raised" /\ err' = "EmptyDataError" /\ weight_matrix' = weight_matrix
       ELSE pc' = "done" /\ err' = err
            /\ weight_matrix' = ConcatGenes(weight_matrix, genes_file[1])
    /\ UNCHANGED <<inputs, opened, fpos, pos, current_line, data, read_csv_args,
                   it, pathway_definitions_map, result>>

\* A loader that leaves the parser's column labels.
RenameColumns_NoRelabel ==
    /\ call = "load_weight_matrix" /\ pc = "loaded"
    /\ ~Given(genes_file)
    /\ pc' = "done"
    /\ weight_matrix' = [weight_matrix EXCEPT !.index_name = "genes"]
    /\ UNCHANGED <<inputs, opened, fpos, pos, current_line, data, read_csv_args,
                   err, it, pathway_definitions_map, result>>

\* lines 140-143: name the index, relabel the columns 0..n_features-1.
RenameColumns ==
    /\ call = "load_weight_matrix" /\ pc = "loaded"
    /\ ~Given(genes_file)
    /\ IF Len(weight_matrix.columns) # n_features
       THEN pc' = "raised" /\ err' = "ValueError: Length mismatch"
            /\ weight_matrix' = [weight_matrix EXCEPT !.index_name = "genes"]
       ELSE pc' = "done" /\ err' = err
            /\ weight_matrix' = [weight_matrix EXCEPT !.index_name = "genes",
                                                      !.columns = Range(n_features)]
    /\ UNCHANGED <<inputs, opened, fpos, pos, current_line, data, read_csv_args,
                   it, pathway_definitions_map, result>>

\* ------------------------------------------------ load_pathway_definitions
\* A set that misses the last identifier of the list.
GeneSet_DropLast(l) == {l[k] : k \in 1..(Len(l) - 1)}

\* set(row["genes"])
GeneSet(l) == {l[k] : k \in 1..Len(l)}

\* An assignment that merges into the value already there.
DictSet_Union(m, key, value) ==
    [k \in DOMAIN m \cup {key} |->
        IF k = key THEN (IF key \in DOMAIN m THEN m[key] \cup value ELSE value)
        ELSE m[k]]

\* dict[key] = value
DictSet(m, key, value) ==
    [k \in DOMAIN m \cup {key} |-> IF k = key THEN value ELSE m[k]]

\* lines 48-54: read the three columns, split the gene lists, index by pw.
PdRead ==
    /\ call = "load_pathway_definitions" /\ pc = "start"
    /\ result' = [index |-> [k \in 1..Len(rows) |-> rows[k].pw],
                  columns |-> <<"size", "genes">>,
                  data |-> [k \in 1..Len(rows) |->
                               <<rows[k].size, Split(rows[k].genes, SEMI)>>],
                  index_name |-> "pw"]
    /\ pathway_definitions_map' = <<>>
    /\ it' = 1
    /\ pc' = "iterrows"
    /\ UNCHANGED <<inputs, opened, fpos, pos, current_line, data, read_csv_args,
                   weight_matrix, err>>

\* lines 55-58: one row of the loop.
PdIter ==
    /\ call = "load_pathway_definitions" /\ pc = "iterrows"
    /\ it <= Len(result.index)
    /\ LET index == IF Given(shorten) THEN shorten[1][result.index[it]]
                    ELSE result.index[it]
       IN pathway_definitions_map' =
              DictSet(pathway_definitions_map, index, GeneSet(result.data[it][2]))
    /\ it' = it + 1
    /\ UNCHANGED <<inputs, pc, opened, fpos, pos, current_line, data,
                   read_csv_args, weight_matrix, err, result>>

\* line 59
PdReturn ==
    /\ call = "load_pathway_definitions" /\ pc = "iterrows"
    /\ it > Len(result.index)
    /\ pc' = "done"
    /\ UNCHANGED <<inputs, opened, fpos, pos, current_line, data, read_csv_args,
                   weight_matrix, err, it, pathway_definitions_map, result>>

\* ------------------------------------------ load_significant_pathways_file
\* A sort by feature alone.
KeyLE_FeatureOnly(a, b) == a[1] <= b[1]

\* The order of sort_values(by=["feature", "side"]) on two rows
\* <<feature, side, pathway>>.
KeyLE(a, b) == a[1] < b[1] \/ (a[1] = b[1] /\ a[2] <= b[2])

\* The stable sort of the row numbers 1..n of table t by KeyLE (a lexsort):
\* row n goes after every row that is not greater.
RECURSIVE StableOrder(_, _)
StableOrder(t, n) ==
    IF n = 0 THEN <<>>
    ELSE LET before == StableOrder(t, n - 1)
             keep == {k \in 1..Len(before) : KeyLE(t[before[k]], t[n])}
             at == IF keep = {} THEN 0
                   ELSE CHOOSE k \in keep : \A j \in keep : j <= k
         IN SubSeq(before, 1, at) \o <<n>> \o SubSeq(before, at + 1, Len(before))

TakeRows(t, order) ==
    [index |-> [k \in 1..Len(order) |-> t.index[order[k]]],
     columns |-> t.columns,
     data |-> [k \in 1..Len(order) |-> t.data[order[k]]],
     index_name |-> t.index_name]

\* lines 79-80: read the three named columns.
SpRead ==
    /\ call = "load_significant_pathways_file" /\ pc = "start"
    /\ result' = [index |-> Range(Len(rows)),
                  columns |-> <<"feature", "side", "pathway">>,
                  data |-> [k \in 1..Len(rows) |->
                               <<rows[k].feature, rows[k].side, rows[k].pathway>>],
                  index_name |-> ""]
    /\ pc' = "read"
    /\ UNCHANGED <<inputs, opened, fpos, pos, current_line, data, read_csv_args,
                   weight_matrix, err, it, pathway_definitions_map>>

\* lines 81-84: shorten the pathway column.
SpShorten ==
    /\ call = "load_significant_pathways_file" /\ pc = "read"
    /\ Given(shorten)
    /\ result' = [result EXCEPT !.data =
                      [k \in 1..Len(result.data) |->
                          [result.data[k] EXCEPT ![3] = shorten[1][@]]]]
    /\ pc' = "sort"
    /\ UNCHANGED <<inputs, opened, fpos, pos, current_line, data, read_csv_args,
                   weight_matrix, err, it, pathway_definitions_map>>

SpSkipShorten ==
    /\ call = "load_significant_pathways_file" /\ pc = "read"
    /\ ~Given(shorten)
    /\ pc' = "sort"
    /\ UNCHANGED <<inputs, opened, fpos, pos, current_line, data, read_csv_args,
                   weight_matrix, err, it, pathway_definitions_map, result>>

\* lines 85-87: sort and return.
SpSort ==
    /\ call = "load_significant_pathways_file" /\ pc = "sort"
    /\ result' = TakeRows(result, StableOrder(result.data, Len(result.data)))
    /\ pc' = "done"
    /\ UNCHANGED <<inputs, opened, fpos, pos, current_line, data, read_csv_args,
                   weight_matrix, err, it, pathway_definitions_map>>

\* ------------------------------------------------- load_expression_dataset
\* str.contains(c, regex=False)
Contains(s, c) == \E k \in 1..Len(s) : s[k] = c

\* The order of Python strings: by code point, a prefix first.
RECURSIVE StrLE(_, _)
StrLE(a, b) ==
    IF a = <<>> THEN TRUE
    ELSE IF b = <<>> THEN FALSE
    ELSE IF a[1] # b[1] THEN a[1] < b[1]
    ELSE StrLE(Tail(a), Tail(b))

\* The rows of t the mask keeps, in order.
RECURSIVE MaskOrder(_, _)
MaskOrder(mask, n) ==
    IF n = 0 THEN <<>>
    ELSE MaskOrder(mask, n - 1) \o (IF mask[n] THEN <<n>> ELSE <<>>)

\* A mask that is not negated.
KeepMask_NotNegated(index) == [k \in 1..Len(index) |-> Contains(index[k], QMARK)]

\* The row mask of lines 25-26 in a build where unary minus negates.
KeepMask(index) == [k \in 1..Len(index) |-> ~Contains(index[k], QMARK)]

Orders(n) == {o \in [1..n -> 1..n] : \A i, j \in 1..n : i # j => o[i] # o[j]}

\* lines 22-24: read, make the first column the index.
EdRead ==
    /\ call = "load_expression_dataset" /\ pc = "start"
    /\ result' = [index |-> [k \in 1..Len(rows) |-> rows[k].gene],
                  columns |-> <<"sample">>,
                  data |-> [k \in 1..Len(rows) |-> <<rows[k].value>>],
                  index_name |-> "gene"]
    /\ pc' = "indexed"
    /\ UNCHANGED <<inputs, opened, fpos, pos, current_line, data, read_csv_args,
                   weight_matrix, err, it, pathway_definitions_map>>

\* lines 25-26: drop the rows whose identifier has a '?'.
EdFilter ==
    /\ call = "load_expression_dataset" /\ pc = "indexed"
    /\ IF numpy_build = "raises"
       THEN pc' = "raised" /\ err' = "TypeError" /\ result' = result
       ELSE pc' = "filtered" /\ err' = err
            /\ result' = TakeRows(result, MaskOrder(KeepMask(result.index),
                                                    Len(result.index)))
    /\ UNCHANGED <<inputs, opened, fpos, pos, current_line, data, read_csv_args,
                   weight_matrix, it, pathway_definitions_map>>

\* lines 27-28: sort_index (a quicksort: equal labels in any order), return.
EdSort ==
    /\ call = "load_expression_dataset" /\ pc = "filtered"
    /\ \E o \in Orders(Len(result.index)) :
          /\ \A i, j \in 1..Len(o) :
                 i < j => StrLE(result.index[o[i]], result.index[o[j]])
          /\ result' = TakeRows(result, o)
    /\ pc' = "done"
    /\ UNCHANGED <<inputs, opened, fpos, pos, current_line, data, read_csv_args,
                   weight_matrix, err, it, pathway_definitions_map>>

Next ==
    \/ PdRead
    \/ PdIter
    \/ PdReturn
    \/ SpRead
    \/ SpShorten
    \/ SpSkipShorten
    \/ SpSort
    \/ EdRead
    \/ EdFilter
    \/ EdSort
    \/ LoadWeightMatrix
    \/ SkipRowsStat
    \/ SkipRowsOpen
    \/ SkipRowsWhile
    \/ SkipRowsScan
    \/ SkipRowsReadCsv
    \/ AttachGenes
    \/ RenameColumns

Spec == Init /\ [][Next]_vars

NextWM ==
    \/ LoadWeightMatrix
    \/ SkipRowsStat
    \/ SkipRowsOpen
    \/ SkipRowsWhile
    \/ SkipRowsScan
    \/ SkipRowsReadCsv
    \/ AttachGenes
    \/ RenameColumns

\* A call runs to its end: the interpreter always takes the next step.
FairScanSpec == InitScan /\ [][NextWM]_vars /\ WF_vars(NextWM)

\* ------------------------------------------- the file, read independently
\* The offsets at which a line of the file starts.
LineStarts == IF Len(file) = 0 THEN {}
              ELSE {0} \cup {k \in 1..(Len(file) - 1) : file[k] = NL}

\* The text of the line that starts at offset s, its newline excluded.
LineStop(s) ==
    LET nls == {k \in (s + 1)..Len(file) : file[k] = NL}
    IN IF nls = {} THEN Len(file) + 1
       ELSE CHOOSE k \in nls : \A j \in nls : k <= j

LineText(s) == SubSeq(file, s + 1, LineStop(s) - 1)

\* The number of tab-separated fields of the line that starts at s.
FieldCount(s) == 1 + Cardinality({k \in (s + 1)..(LineStop(s) - 1) : file[k] = TAB})

Hits == {s \in LineStarts : FieldCount(s) >= n_features}

FirstHit == CHOOSE s \in Hits : \A t \in Hits : s <= t

\* The non-blank lines from offset p on, in file order.
RECURSIVE SortedSeq(_)
SortedSeq(S) ==
    IF S = {} THEN <<>>
    ELSE LET lo == CHOOSE x \in S : \A y \in S : x <= y
         IN <<lo>> \o SortedSeq(S \ {lo})

RegionStarts(p) == SortedSeq({s \in LineStarts : s >= p /\ LineText(s) # <<>>})

IsWM == call = "load_weight_matrix"

Ended == pc \in {"done", "raised"}

\* The helper has handed the file to the tabular parser.
Handed == IsWM /\ pc \in {"loaded", "done", "raised"}
               /\ err # "ValueError: file is empty"

\* k junk lines of fewer than n_features fields, then m >= 1 lines of
\* exactly d fields each, and nothing else.
JunkThenData(d) ==
    /\ Hits # {}
    /\ \A s \in LineStarts : s >= FirstHit => FieldCount(s) = d

NumData == Cardinality({s \in LineStarts : s >= FirstHit})

NumJunk == Cardinality({s \in LineStarts : s < FirstHit})

ExpectedRows == IF n_genes = <<>> THEN NumData ELSE Min(NumData, n_genes[1])

\* C1 as stated: junk lines, then m rows of exactly n_features fields: the
\* call returns m rows (min(m, n_genes) when n_genes is given) and
\* n_features columns.
C1_AsStated ==
    (IsWM /\ ~Given(genes_file) /\ JunkThenData(n_features) /\ Ended)
        => /\ pc = "done"
           /\ Len(weight_matrix.data) = ExpectedRows
           /\ Len(weight_matrix.columns) = n_features

\* C1 amended: junk lines of fewer than n_features fields, then m >= 1 rows
\* of exactly n_features + 1 fields (the row label and n_features weights):
\* the call returns a table of n_features columns with m rows when n_genes
\* is None or 0, and min(m, n_genes) rows when n_genes is positive.
C1_RowsAndColumns ==
    (IsWM /\ ~Given(genes_file) /\ JunkThenData(n_features + 1) /\ Ended)
        => /\ pc = "done"
           /\ Len(weight_matrix.data) =
                  (IF Truthy(n_genes) THEN Min(NumData, n_genes[1]) ELSE NumData)
           /\ Len(weight_matrix.index) = Len(weight_matrix.data)
           /\ weight_matrix.columns = Range(n_features)
           /\ \A k \in 1..Len(weight_matrix.data) :
                  Len(weight_matrix.data[k]) = n_features

C1_Witness ==
    /\ IsWM /\ ~Given(genes_file) /\ JunkThenData(n_features + 1)
    /\ pc = "done"
    /\ NumJunk >= 1 /\ NumData = 2
    /\ Truthy(n_genes) /\ n_genes[1] = 1
    /\ Len(weight_matrix.data) = 1

NoLineReaches == \A s \in LineStarts : FieldCount(s) < n_features

\* C2: on a non-empty file none of whose lines has n_features fields the
\* call terminates with a parse error.
C2_Terminates ==
    (IsWM /\ Len(file) > 0 /\ NoLineReaches) ~> (pc = "raised")

\* C3: on a zero-byte file the call raises the empty-file error before the
\* file is opened or a line is read, and returns no table.
C3_EmptyFile ==
    (IsWM /\ Len(file) = 0)
        => /\ pc \in {"start", "stat", "raised"}
           /\ (pc = "raised" => err = "ValueError: file is empty")
           /\ opened = FALSE /\ fpos = 0 /\ current_line = <<>> /\ data = <<>>
           /\ weight_matrix = EmptyTable

C3_Witness ==
    /\ IsWM /\ Len(file) = 0 /\ pc = "raised"
    /\ Given(genes_file) /\ Truthy(n_genes) /\ n_features = 2

\* The position handed to the parser is the start of the first line with
\* at least n_features fields, and the parser gets the file from there on.
HandedAtFirstHit ==
    /\ Hits # {}
    /\ pos = FirstHit
    /\ fpos = pos
    /\ (FieldCount(0) >= n_features => pos = 0)

FirstRowOf(t) ==
    IF read_csv_args.index_col = <<>> THEN t.data[1]
    ELSE <<t.index[1]>> \o t.data[1]

\* C4 as stated: the parser starts at the first line with at least
\* n_features fields and that line is the first parsed data row.
C4_AsStated ==
    Handed => /\ HandedAtFirstHit
              /\ (pc = "loaded" =>
                    FirstRowOf(weight_matrix) = Split(LineText(pos), TAB))

\* C4 amended: the parser starts at the offset of the first line with at
\* least n_features fields (0 when the first line has them), every earlier
\* line is discarded, and that line is the first parsed data row unless it
\* is blank, in which case the parser skips it.
C4_StartOffset ==
    Handed => /\ HandedAtFirstHit
              /\ ((pc = "loaded" /\ LineText(pos) # <<>>) =>
                    FirstRowOf(weight_matrix) = Split(LineText(pos), TAB))

C4_Witness ==
    /\ Handed /\ pc = "loaded"
    /\ pos > 0 /\ NumJunk = 2
    /\ n_features = 2

\* C5 as stated: when n_genes is given exactly n_genes rows are read.
C5_AsStated ==
    (IsWM /\ pc = "loaded" /\ Given(n_genes))
        => Len(weight_matrix.data) = n_genes[1]

\* C5 amended: when n_genes is a positive integer the rows read are the
\* first min(n_genes, rows available) non-blank lines from the detected
\* start; the lines after them are ignored.
C5_AtMostNGenes ==
    (IsWM /\ pc = "loaded" /\ Truthy(n_genes))
        => LET rs == RegionStarts(pos)
               n == Min(n_genes[1], Len(rs))
           IN /\ Len(weight_matrix.data) = n
              /\ \A k \in 1..n :
                    FirstRowOf([index |-> <<weight_matrix.index[k]>>,
                                data |-> <<weight_matrix.data[k]>>])
                        = PadRow(Split(LineText(rs[k]), TAB),
                                 FieldCount(rs[1]))

C5_Witness ==
    /\ IsWM /\ pc = "loaded" /\ Truthy(n_genes)
    /\ n_genes[1] = 1
    /\ Len(RegionStarts(pos)) = 2
    /\ FieldCount(RegionStarts(pos)[2]) > FieldCount(RegionStarts(pos)[1])
    /\ Len(weight_matrix.data) = 1

\* The detected data region: every line from the detected start on is
\* non-blank and has as many fields as the first.
RegionWellFormed ==
    /\ Hits # {}
    /\ \A s \in LineStarts : s >= FirstHit =>
           /\ FieldCount(s) = FieldCount(FirstHit)
           /\ LineText(s) # <<>>

\* C6 as stated: with a genes file of m identifiers and a data region of m
\* rows, row i is labelled with identifier i and has the weights of row i.
C6_AsStated ==
    (IsWM /\ Given(genes_file) /\ RegionWellFormed /\ Ended
          /\ Len(genes_file[1]) = NumData)
        => /\ pc = "done"
           /\ weight_matrix.index = genes_file[1]
           /\ \A k \in 1..NumData :
                  weight_matrix.data[k] = Split(LineText(RegionStarts(FirstHit)[k]), TAB)

\* C6 amended: the same when n_genes is None, 0, or at least m.
C6_GeneLabels ==
    (IsWM /\ Given(genes_file) /\ RegionWellFormed /\ Ended
          /\ Len(genes_file[1]) = NumData
          /\ (Truthy(n_genes) => n_genes[1] >= NumData))
        => /\ pc = "done"
           /\ weight_matrix.index = genes_file[1]
           /\ weight_matrix.index_name = "genes"
           /\ Len(weight_matrix.data) = NumData
           /\ \A k \in 1..NumData :
                  weight_matrix.data[k] = Split(LineText(RegionStarts(FirstHit)[k]), TAB)

C6_Witness ==
    /\ IsWM /\ Given(genes_file) /\ RegionWellFormed /\ pc = "done"
    /\ NumData = 2 /\ NumJunk = 1
    /\ Len(genes_file[1]) = 2 /\ genes_file[1][1] # genes_file[1][2]
    /\ weight_matrix.data[1] # weight_matrix.data[2]
    /\ Truthy(n_genes)

\* ------------------------------------------------ load_pathway_definitions
IsPD == call = "load_pathway_definitions"

KeyOf(k) == IF shorten = <<>> THEN rows[k].pw ELSE shorten[1][rows[k].pw]

\* The identifiers of a semicolon-delimited list: the runs between the
\* semicolons, the empty ones included.
GenesOf(s) ==
    {SubSeq(s, ab[1], ab[2]) : ab \in
        {ab \in (1..(Len(s) + 1)) \X (0..Len(s)) :
            /\ ab[2] >= ab[1] - 1
            /\ (ab[1] = 1 \/ s[ab[1] - 1] = SEMI)
            /\ (ab[2] = Len(s) \/ s[ab[2] + 1] = SEMI)
            /\ \A k \in ab[1]..ab[2] : s[k] # SEMI}}

LastWithKey(k) == \A j \in (k + 1)..Len(rows) : KeyOf(j) # KeyOf(k)

\* C7 as stated: every gene of every row is in the set under the row's key.
C7_AsStated ==
    (IsPD /\ pc = "done")
        => \A k \in 1..Len(rows) :
              /\ KeyOf(k) \in DOMAIN pathway_definitions_map
              /\ GenesOf(rows[k].genes) \subseteq pathway_definitions_map[KeyOf(k)]

\* C7 amended: every gene of every row that no later row shares its key
\* with is in the set under the row's key.
C7_GenesOfLastRows ==
    (IsPD /\ pc = "done")
        => \A k \in 1..Len(rows) :
              LastWithKey(k) =>
                  /\ KeyOf(k) \in DOMAIN pathway_definitions_map
                  /\ GenesOf(rows[k].genes) \subseteq pathway_definitions_map[KeyOf(k)]

C7_Witness ==
    /\ IsPD /\ pc = "done" /\ Given(shorten)
    /\ Len(rows) = 3
    /\ KeyOf(1) # KeyOf(2) /\ KeyOf(2) = KeyOf(3) /\ rows[1].pw # KeyOf(1)
    /\ Cardinality(GenesOf(rows[1].genes)) = 2
    /\ ~(GenesOf(rows[2].genes) \subseteq GenesOf(rows[3].genes))

\* C8: under a key that several rows map to the result holds the gene set
\* of the last of them alone, and it has one key per distinct key value.
C8_LastRowWins ==
    (IsPD /\ pc = "done")
        => /\ DOMAIN pathway_definitions_map = {KeyOf(k) : k \in 1..Len(rows)}
           /\ \A k \in 1..Len(rows) :
                  LastWithKey(k) =>
                      pathway_definitions_map[KeyOf(k)] = GenesOf(rows[k].genes)

C8_Witness ==
    /\ IsPD /\ pc = "done" /\ Given(shorten)
    /\ Len(rows) = 3
    /\ rows[1].pw # rows[3].pw /\ KeyOf(1) = KeyOf(3)
    /\ GenesOf(rows[1].genes) \cap GenesOf(rows[3].genes) = {}
    /\ GenesOf(rows[2].genes) # GenesOf(rows[3].genes)
    /\ Cardinality(DOMAIN pathway_definitions_map) = 1

\* ------------------------------------------ load_significant_pathways_file
IsSP == call = "load_significant_pathways_file"

\* The row of the result that came from line k of the file.
Selected(k) ==
    <<rows[k].feature, rows[k].side,
      IF shorten = <<>> THEN rows[k].pathway ELSE shorten[1][rows[k].pathway]>>

\* C9: the result has the columns feature, side and pathway, holds every
\* input row once, is ascending by (feature, side), and rows equal on both
\* keep their file order.
C9_StableSort ==
    (IsSP /\ pc = "done")
        => LET n == Len(rows) IN
           /\ {result.columns[c] : c \in 1..Len(result.columns)}
                  = {"feature", "side", "pathway"}
           /\ Len(result.columns) = 3
           /\ Len(result.data) = n /\ Len(result.index) = n
           /\ {result.index[k] : k \in 1..n} = 0..(n - 1)
           /\ \A k \in 1..n : result.data[k] = Selected(result.index[k] + 1)
           /\ \A i, j \in 1..n : i < j =>
                  \/ result.data[i][1] < result.data[j][1]
                  \/ /\ result.data[i][1] = result.data[j][1]
                     /\ result.data[i][2] < result.data[j][2]
                  \/ /\ result.data[i][1] = result.data[j][1]
                     /\ result.data[i][2] = result.data[j][2]
                     /\ result.index[i] < result.index[j]

C9_Witness ==
    /\ IsSP /\ pc = "done" /\ Len(rows) = 3
    /\ rows[1].feature = 2
    /\ rows[2].feature = 1 /\ rows[3].feature = 1
    /\ rows[2].side = rows[3].side /\ rows[2].pathway # rows[3].pathway
    /\ result.index = <<1, 2, 0>>

\* ------------------------------------------------- load_expression_dataset
IsED == call = "load_expression_dataset"

HasQuestionMark(g) == QMARK \in {g[k] : k \in 1..Len(g)}

Times(r, t) == Cardinality({k \in 1..Len(t) : t[k] = r})

ResultRows ==
    [k \in 1..Len(result.index) |->
        [gene |-> result.index[k], value |-> result.data[k][1]]]

====
